---------------------------- MODULE Spec2Model ----------------------------
(***************************************************************************)
(* Model of src/engine.py: the four entry points confidence_score_source,  *)
(* decision_rule_engine, evaluate_consensus and hybrid_reasoning_engine,   *)
(* and the loader read_input_file they share.                              *)
(*                                                                         *)
(* Representation.                                                         *)
(*   - A Python dict is a function whose DOMAIN is the set of its keys;    *)
(*     the empty dict is <<>>.  d.get(k, default) is Get(d, k, default).   *)
(*   - A Python list is a sequence.                                        *)
(*   - A str the code inspects or builds (keywords, claim, content,        *)
(*     problem, observation, conclusion) is a sequence of one-character    *)
(*     strings, so lower(), "in" and f-string formatting are computed.     *)
(*     A str the code only looks up or returns verbatim (enum values,      *)
(*     report messages, verdicts) is an atom.                              *)
(*   - A float score is an integer number of hundredths: 0.93 is 93.  The  *)
(*     weights are tenths (4, 3, 3) and the sub-scores are tenths (9, 6,   *)
(*     3, ...), so every product is exact in hundredths; the recency       *)
(*     1 - years_old/5 is 10 - 2*years_old tenths.  No real-valued score   *)
(*     equals 0.7 or 1.0 (scores are 0 or 3 modulo 6 hundredths), so       *)
(*     float rounding cannot move a score across a comparison.             *)
(*   - A call's outcome is a record: a float, a str atom, a computed text  *)
(*     or a raised exception.                                              *)
(***************************************************************************)
EXTENDS Integers, Sequences, FiniteSets, TLC

VARIABLES
    now,     \* the calendar year of the environment (the code never reads it)
    file,    \* the resource at file_path: [state, doc]
    fn,      \* the entry point called last ("none" before any call)
    result,  \* what that call returned or raised
    loaded   \* the record the call loaded, as the call left it in memory

vars == <<now, file, fn, result, loaded>>

---------------------------------------------------------------------------
(* Bounds of the model *)

\* keywords lists have at most MaxKeywords entries
MaxKeywords == 2
\* data lists have at most MaxData entries
MaxData == 3
\* sources lists have at most MaxSources entries
MaxSources == 2
\* publication years go back MaxYearsOld years before ReferenceYear
MaxYearsOld == 10
\* and MaxFuture years after it
MaxFuture == 2
\* the calendar advances at most MaxClock years past ReferenceYear
MaxClock == 1

\* the year the code subtracts publication years from (line 41)
ReferenceYear == 2025

---------------------------------------------------------------------------
(* Python primitives the code uses *)

ascii_uppercase == <<"A","B","C","D","E","F","G","H","I","J","K","L","M","N","O","P","Q","R","S","T","U","V","W","X","Y","Z">>
ascii_lowercase == <<"a","b","c","d","e","f","g","h","i","j","k","l","m","n","o","p","q","r","s","t","u","v","w","x","y","z">>

\* str.lower() on one character
lower_char(c) ==
    IF \E i \in 1..Len(ascii_uppercase) : ascii_uppercase[i] = c
    THEN ascii_lowercase[CHOOSE i \in 1..Len(ascii_uppercase) : ascii_uppercase[i] = c]
    ELSE c

\* str.lower()
lower(s) == [i \in 1..Len(s) |-> lower_char(s[i])]

\* a in b, for strs
IsSubstring(a, b) ==
    \E i \in 0..(Len(b) - Len(a)) : SubSeq(b, i + 1, i + Len(a)) = a

\* d.get(k, default)
Get(d, k, default) == IF k \in DOMAIN d THEN d[k] ELSE default

\* max(a, b), min(a, b)
Max(a, b) == IF a >= b THEN a ELSE b
Min(a, b) == IF a <= b THEN a ELSE b

---------------------------------------------------------------------------
(* Outcomes of a call *)

Float(x) == [kind |-> "float", num |-> x, str |-> "", text |-> <<>>, exc |-> ""]
Str(s)   == [kind |-> "str", num |-> 0, str |-> s, text |-> <<>>, exc |-> ""]
Text(t)  == [kind |-> "text", num |-> 0, str |-> "", text |-> t, exc |-> ""]
Raise(e) == [kind |-> "raise", num |-> 0, str |-> "", text |-> <<>>, exc |-> e]
NoResult == [kind |-> "none", num |-> 0, str |-> "", text |-> <<>>, exc |-> ""]

\* The argument of an entry point: the path of the resource, or (in the call
\* evaluate_consensus makes) a dict.
Path == [kind |-> "str", value |-> <<>>]
DictArg(d) == [kind |-> "dict", value |-> d]

---------------------------------------------------------------------------
(* read_input_file, lines 4-11 *)

\* open() accepts a str path only: any other argument raises TypeError, which
\* neither except clause catches.
read_input_file(file_path, fs) ==
    IF file_path.kind # "str"
    THEN [exc |-> "TypeError", data |-> <<>>]
    ELSE IF fs.state = "missing"
    THEN [exc |-> "none", data |-> ("error" :> "File not found")]
    ELSE IF fs.state = "malformed"
    THEN [exc |-> "none", data |-> ("error" :> "Invalid JSON format")]
    ELSE [exc |-> "none", data |-> fs.doc]

---------------------------------------------------------------------------
(* Component 1: confidence_score_source, lines 14-49 *)

weights == [source_type |-> 4, recency |-> 3, authority |-> 3]
source_types == [primary |-> 9, secondary |-> 6, opinion |-> 3]
authorities == [academic |-> 9, government |-> 8, news |-> 5, blog |-> 2]

\* lines 41-42, in tenths
recency_score(source_data) ==
    LET years_old == ReferenceYear - Get(source_data, "year", ReferenceYear)
    IN  Max(0, 10 - 2 * years_old)

\* lines 34-47: the weighted sum, in hundredths
weighted_score(source_data) ==
      weights.source_type * Get(source_types, Get(source_data, "type", "opinion"), 3)
    + weights.recency * recency_score(source_data)
    + weights.authority * Get(authorities, Get(source_data, "authority", "blog"), 2)

\* line 49 with the upper limit left out: max(score, 0.0)
clamp_floor_only(score) == Max(score, 0)

\* line 49
clamp(score) == Min(Max(score, 0), 100)

confidence_score_source(file_path, fs) ==
    LET r == read_input_file(file_path, fs)
    IN  IF r.exc # "none" THEN Raise(r.exc)
        ELSE IF "error" \in DOMAIN r.data THEN Str(r.data["error"])
        ELSE LET source_data == Get(Get(r.data, "confidence_score", <<>>), "source", <<>>)
             IN  IF DOMAIN source_data = {} THEN Str("No source data provided")
                 ELSE Float(clamp(weighted_score(source_data)))

---------------------------------------------------------------------------
(* Component 2: decision_rule_engine, lines 52-88 *)

technical_terms == { <<"q","u","a","n","t","u","m">>, <<"t","a","r","i","f","f">>, <<"a","l","g","o","r","i","t","h","m">>, <<"p","h","i","l","o","s","o","p","h","y">> }
domains == [science |-> 2, economics |-> 2, history |-> 1, general |-> 0]
urgency_modifier == [high |-> -1, normal |-> 0, low |-> 1]

\* lines 66-80
complexity_score(query_metadata) ==
    LET keywords == Get(query_metadata, "keywords", <<>>)
    IN    Cardinality({i \in 1..Len(keywords) : lower(keywords[i]) \in technical_terms})
        + Get(domains, Get(query_metadata, "domain", "general"), 0)
        + Get(urgency_modifier, Get(query_metadata, "urgency", "normal"), 0)

\* lines 83-88 with strict comparisons: score < 1, score < 3
decision_rules_strict(score) ==
    IF score < 1 THEN "light"
    ELSE IF score < 3 THEN "moderate"
    ELSE "deep"

\* lines 83-88
decision_rules(score) ==
    IF score <= 1 THEN "light"
    ELSE IF score <= 3 THEN "moderate"
    ELSE "deep"

decision_rule_engine(file_path, fs) ==
    LET r == read_input_file(file_path, fs)
    IN  IF r.exc # "none" THEN Raise(r.exc)
        ELSE IF "error" \in DOMAIN r.data THEN Str(r.data["error"])
        ELSE LET query_metadata == Get(Get(r.data, "decision_rule", <<>>), "query", <<>>)
             IN  IF DOMAIN query_metadata = {} THEN Str("No query data provided")
                 ELSE Str(decision_rules(complexity_score(query_metadata)))

---------------------------------------------------------------------------
(* Component 3: evaluate_consensus, lines 91-138 *)

\* lines 111-112 without the copy: the content is dropped from the caller's
\* own record before it is handed to the scorer
score_source_in_place(source, fs) ==
    LET stripped == [k \in DOMAIN source \ {"content"} |-> source[k]]
    IN  [source |-> stripped,
         score  |-> confidence_score_source(
                        DictArg("confidence_score" :> ("source" :> stripped)), fs)]

\* lines 111-112: one iteration's scoring.  The scorer is handed a dict that
\* wraps a copy of the source; "source" is the caller's record after the step.
score_source(source, fs) ==
    LET temp_source == source
    IN  [source |-> source,
         score  |-> confidence_score_source(
                        DictArg("confidence_score" :> ("source" :> temp_source)), fs)]

\* lines 109-114: the loop over sources; an exception ends it
RECURSIVE score_loop(_, _, _, _)
score_loop(sources, i, high_conf_sources, fs) ==
    IF i > Len(sources)
    THEN [exc |-> "none", sources |-> sources, high_conf_sources |-> high_conf_sources]
    ELSE LET step  == score_source(sources[i], fs)
             after == [sources EXCEPT ![i] = step.source]
         IN  IF step.score.kind = "raise"
             THEN [exc |-> step.score.exc, sources |-> after,
                   high_conf_sources |-> high_conf_sources]
             ELSE score_loop(after, i + 1,
                      IF step.score.kind = "float" /\ step.score.num >= 70
                      THEN Append(high_conf_sources, step.source)
                      ELSE high_conf_sources,
                      fs)

\* line 123
content_of(source) == lower(Get(source, "content", <<>>))

\* lines 124-125: the sources counted as support
support_set(claim, high_conf_sources) ==
    {i \in 1..Len(high_conf_sources) :
        IsSubstring(lower(claim), content_of(high_conf_sources[i]))}

\* lines 126-127: the elif, reached only by sources not counted as support
oppose_set(claim, high_conf_sources) ==
    {i \in 1..Len(high_conf_sources) :
        /\ ~IsSubstring(lower(claim), content_of(high_conf_sources[i]))
        /\ IsSubstring(<<"n","o","t"," ">> \o lower(claim), content_of(high_conf_sources[i]))}

\* lines 116-138: support_ratio >= 0.8 is 10*support >= 8*total
consensus(claim, high_conf_sources) ==
    LET support_count == Cardinality(support_set(claim, high_conf_sources))
        oppose_count  == Cardinality(oppose_set(claim, high_conf_sources))
        total         == support_count + oppose_count
    IN  IF high_conf_sources = <<>> THEN "no_consensus"
        ELSE IF total = 0 THEN "no_consensus"
        ELSE IF 10 * support_count >= 8 * total THEN "supported"
        ELSE IF 10 * support_count <= 2 * total THEN "disputed"
        ELSE "no_consensus"

\* The outcome, and the loaded record as the call leaves it.
evaluate_consensus(file_path, fs) ==
    LET r == read_input_file(file_path, fs)
    IN  IF r.exc # "none" THEN [ret |-> Raise(r.exc), data |-> r.data]
        ELSE IF "error" \in DOMAIN r.data
        THEN [ret |-> Str(r.data["error"]), data |-> r.data]
        ELSE LET consensus_data == Get(r.data, "consensus_eval", <<>>)
                 claim   == Get(consensus_data, "claim", <<>>)
                 sources == Get(consensus_data, "sources", <<>>)
             IN  IF claim = <<>> \/ sources = <<>>
                 THEN [ret |-> Str("No claim or sources provided"), data |-> r.data]
                 ELSE LET loop == score_loop(sources, 1, <<>>, fs)
                      IN  [ret  |-> IF loop.exc # "none" THEN Raise(loop.exc)
                                    ELSE Str(consensus(claim, loop.high_conf_sources)),
                           data |-> [r.data EXCEPT !["consensus_eval"] =
                                        [@ EXCEPT !["sources"] = loop.sources]]]

---------------------------------------------------------------------------
(* Component 4: hybrid_reasoning_engine, lines 141-182 *)

first_principles ==
    [economics |-> <<"S","u","p","p","l","y"," ","a","n","d"," ","d","e","m","a","n","d"," ","g","o","v","e","r","n"," ","p","r","i","c","e","s",".">>,
     physics   |-> <<"E","n","e","r","g","y"," ","i","s"," ","c","o","n","s","e","r","v","e","d",".">>]

\* line 163
first_domain(data_points) ==
    IF data_points # <<>> THEN Get(data_points[1], "domain", "general") ELSE "general"

\* line 164
base_principle(data_points) ==
    Get(first_principles, first_domain(data_points), <<"G","e","n","e","r","a","l"," ","r","e","a","s","o","n","i","n","g"," ","a","p","p","l","i","e","s",".">>)

\* line 167
observations_of(data_points) ==
    [i \in 1..Len(data_points) |-> Get(data_points[i], "observation", <<>>)]

\* line 172
positive_outcomes(observations) ==
    Cardinality({i \in 1..Len(observations) :
                    IsSubstring(<<"i","n","c","r","e","a","s","e">>, lower(observations[i]))})

\* lines 173-174 with >= in place of >
trend_at_least_half(observations) ==
    IF 2 * positive_outcomes(observations) >= Len(observations)
    THEN <<"l","i","k","e","l","y"," ","i","n","c","r","e","a","s","e","s">>
    ELSE <<"m","a","y"," ","n","o","t"," ","i","n","c","r","e","a","s","e">>

\* lines 173-174: positive_outcomes / total > 0.5 is 2*positive_outcomes > total
trend(observations) ==
    IF 2 * positive_outcomes(observations) > Len(observations)
    THEN <<"l","i","k","e","l","y"," ","i","n","c","r","e","a","s","e","s">>
    ELSE <<"m","a","y"," ","n","o","t"," ","i","n","c","r","e","a","s","e">>

\* lines 177-180
conclusion(problem, data_points) ==
    IF first_domain(data_points) = "economics" /\ IsSubstring(<<"p","r","i","c","e">>, lower(problem))
    THEN base_principle(data_points) \o <<" ","D","a","t","a"," ","s","u","g","g","e","s","t","s"," ">> \o lower(problem)
            \o <<" ">> \o trend(observations_of(data_points)) \o <<".">>
    ELSE base_principle(data_points) \o <<" ","D","a","t","a"," ","a","n","a","l","y","s","i","s"," ","i","n","c","o","n","c","l","u","s","i","v","e"," ","f","o","r"," ">>
            \o problem \o <<".">>

hybrid_reasoning_engine(file_path, fs) ==
    LET r == read_input_file(file_path, fs)
    IN  IF r.exc # "none" THEN Raise(r.exc)
        ELSE IF "error" \in DOMAIN r.data THEN Str(r.data["error"])
        ELSE LET reasoning_data == Get(r.data, "hybrid_reasoning", <<>>)
                 problem     == Get(reasoning_data, "problem", <<>>)
                 data_points == Get(reasoning_data, "data", <<>>)
             IN  IF problem = <<>> THEN Str("No problem provided")
                 ELSE IF observations_of(data_points) = <<>>
                 THEN Text(<<"B","a","s","e","d"," ","o","n"," ">> \o base_principle(data_points)
                              \o <<","," ","i","n","s","u","f","f","i","c","i","e","n","t"," ","d","a","t","a"," ","t","o"," ","c","o","n","c","l","u","d","e",".">>)
                 ELSE Text(conclusion(problem, data_points))

---------------------------------------------------------------------------
(* The input records the model draws from *)

\* the dicts holding key k with a value of V, or no key k
Opt(k, V) == {<<>>} \cup {k :> v : v \in V}

\* the lists over S of at most n entries
SeqsUpTo(S, n) == UNION {[1..k -> S] : k \in 0..n}

SourceTypes == {"primary", "secondary", "opinion", "rumour"}
Authorities == {"academic", "government", "news", "blog", "forum"}
Years       == (ReferenceYear - MaxYearsOld)..(ReferenceYear + MaxFuture)

SourceDescriptors ==
    {t @@ y @@ a : t \in Opt("type", SourceTypes),
                   y \in Opt("year", Years),
                   a \in Opt("authority", Authorities)}

ConfidenceDocs ==
    {"confidence_score" :> c : c \in Opt("source", SourceDescriptors)}

KeywordTexts == { <<"Q","u","a","n","t","u","m">>, <<"A","L","G","O","R","I","T","H","M">>, <<"t","a","r","i","f","f","s">> }
Domains      == {"science", "economics", "history", "general", "art"}
Urgencies    == {"high", "normal", "low", "asap"}

QueryFeatures ==
    {k @@ d @@ u : k \in Opt("keywords", SeqsUpTo(KeywordTexts, MaxKeywords)),
                   d \in Opt("domain", Domains),
                   u \in Opt("urgency", Urgencies)}

DecisionDocs ==
    {"decision_rule" :> q : q \in Opt("query", QueryFeatures)}

ClaimTexts   == { <<>>, <<"U","p">> }
ContentTexts == { <<"P","r","i","c","e","s"," ","g","o"," ","u","p">>, <<"P","r","i","c","e","s"," ","d","o"," ","N","O","T"," ","U","P">>, <<"d","o","w","n">> }

\* primary/academic/undated scores 0.93; type missing scores 0.69
ConsensusSources ==
    {t @@ ("authority" :> "academic") @@ c :
        t \in Opt("type", {"primary"}), c \in Opt("content", ContentTexts)}

ConsensusDocs ==
    {"consensus_eval" :> (c @@ s) :
        c \in Opt("claim", ClaimTexts),
        s \in Opt("sources", SeqsUpTo(ConsensusSources, MaxSources))}

ProblemTexts == { <<>>, <<"O","i","l"," ","P","R","I","C","E","?">>, <<"r","a","i","n">> }

DataPoints ==
    { ("domain" :> "economics") @@ ("observation" :> <<"a","n"," ","I","n","c","r","e","a","s","e">>),
      ("domain" :> "economics") @@ ("observation" :> <<"a"," ","d","r","o","p">>),
      ("domain" :> "physics"),
      ("observation" :> <<"I","N","C","R","E","A","S","E","D">>) }

HybridDocs ==
    {"hybrid_reasoning" :> (p @@ d) :
        p \in Opt("problem", ProblemTexts),
        d \in Opt("data", SeqsUpTo(DataPoints, MaxData))}

\* one record carrying all four sections
AllSections ==
       ("confidence_score" :> ("source" :> (("type" :> "primary") @@ ("year" :> ReferenceYear))))
    @@ ("decision_rule" :> ("query" :> ("domain" :> "science")))
    @@ ("consensus_eval" :> (("claim" :> <<"U","p">>) @@
            ("sources" :> << ("type" :> "primary") @@ ("authority" :> "academic")
                                @@ ("content" :> <<"P","r","i","c","e","s"," ","g","o"," ","u","p">>) >>)))
    @@ ("hybrid_reasoning" :> (("problem" :> <<"O","i","l"," ","P","R","I","C","E","?">>) @@
            ("data" :> << ("domain" :> "economics") @@ ("observation" :> <<"a","n"," ","I","n","c","r","e","a","s","e">>) >>)))

\* records whose top level also holds a key named "error"
ErrorValues == {"File not found", "quota exceeded"}
ErrorDocs   == {("error" :> e) @@ d : e \in ErrorValues, d \in {<<>>, AllSections}}

Docs ==
    {<<>>, AllSections} \cup ConfidenceDocs \cup DecisionDocs \cup ConsensusDocs
        \cup HybridDocs \cup ErrorDocs

Files ==
    {[state |-> "missing", doc |-> <<>>], [state |-> "malformed", doc |-> <<>>]}
        \cup {[state |-> "ok", doc |-> d] : d \in Docs}

---------------------------------------------------------------------------
(* The state machine: one action per entry point, each a whole call *)

Init ==
    /\ now \in ReferenceYear..(ReferenceYear + MaxClock)
    /\ file \in Files
    /\ fn = "none"
    /\ result = NoResult
    /\ loaded = <<>>

ConfidenceScoreSource ==
    /\ fn' = "confidence_score_source"
    /\ result' = confidence_score_source(Path, file)
    /\ loaded' = read_input_file(Path, file).data
    /\ UNCHANGED <<now, file>>

DecisionRuleEngine ==
    /\ fn' = "decision_rule_engine"
    /\ result' = decision_rule_engine(Path, file)
    /\ loaded' = read_input_file(Path, file).data
    /\ UNCHANGED <<now, file>>

EvaluateConsensus ==
    /\ fn' = "evaluate_consensus"
    /\ result' = evaluate_consensus(Path, file).ret
    /\ loaded' = evaluate_consensus(Path, file).data
    /\ UNCHANGED <<now, file>>

HybridReasoningEngine ==
    /\ fn' = "hybrid_reasoning_engine"
    /\ result' = hybrid_reasoning_engine(Path, file)
    /\ loaded' = read_input_file(Path, file).data
    /\ UNCHANGED <<now, file>>

Next ==
    \/ ConfidenceScoreSource
    \/ DecisionRuleEngine
    \/ EvaluateConsensus
    \/ HybridReasoningEngine

Spec == Init /\ [][Next]_vars

---------------------------------------------------------------------------
(* What the properties below read off the state *)

\* the resource parsed to a record with no top-level key named "error"
Parsed == file.state = "ok" /\ "error" \notin DOMAIN file.doc

TheSource  == Get(Get(file.doc, "confidence_score", <<>>), "source", <<>>)
TheQuery   == Get(Get(file.doc, "decision_rule", <<>>), "query", <<>>)
TheClaim   == Get(Get(file.doc, "consensus_eval", <<>>), "claim", <<>>)
TheSources == Get(Get(file.doc, "consensus_eval", <<>>), "sources", <<>>)
TheProblem == Get(Get(file.doc, "hybrid_reasoning", <<>>), "problem", <<>>)
TheData    == Get(Get(file.doc, "hybrid_reasoning", <<>>), "data", <<>>)

\* the last call was evaluate_consensus on a non-empty claim and source list
ConsensusCalled ==
    /\ fn = "evaluate_consensus"
    /\ Parsed
    /\ TheClaim # <<>>
    /\ TheSources # <<>>

\* the Source Confidence Score of descriptor d: what confidence_score_source
\* returns for a resource holding d
ScoreOf(d) ==
    confidence_score_source(Path,
        [state |-> "ok", doc |-> ("confidence_score" :> ("source" :> d))])

\* the sources with a numeric score >= 0.7
HighConfidence ==
    {i \in 1..Len(TheSources) :
        ScoreOf(TheSources[i]).kind = "float" /\ ScoreOf(TheSources[i]).num >= 70}

\* those whose lowercased content contains the lowercased claim
Supporting ==
    {i \in HighConfidence :
        IsSubstring(lower(TheClaim), lower(Get(TheSources[i], "content", <<>>)))}

\* those whose lowercased content contains "not " + the lowercased claim
Negating ==
    {i \in HighConfidence :
        IsSubstring(<<"n","o","t"," ">> \o lower(TheClaim),
                    lower(Get(TheSources[i], "content", <<>>)))}

---------------------------------------------------------------------------
(* C1 *)

\* C1: for every non-empty source descriptor (any, unrecognized or missing
\* type and authority, any or no year) confidence_score_source returns a
\* number, and every number it returns lies in [0.0, 1.0].
C1_ScoreInUnitInterval ==
    fn = "confidence_score_source" =>
        /\ (Parsed /\ TheSource # <<>>) => result.kind = "float"
        /\ result.kind = "float" => (0 <= result.num /\ result.num <= 100)

\* a future-dated source whose weighted sum exceeds 1.0 was scored
C1_Witness ==
    /\ fn = "confidence_score_source"
    /\ Parsed
    /\ TheSource # <<>>
    /\ weighted_score(TheSource) > 100
    /\ result = Float(100)

---------------------------------------------------------------------------
(* C2 *)

\* C2: no entry point ever raises: every call returns a typed result or a
\* report string.
C2_NoEntryPointRaises == result.kind # "raise"

---------------------------------------------------------------------------
(* C3 *)

\* C3: evaluate_consensus returns 'supported' whenever some source scores
\* >= 0.7 and, of the high-confidence sources whose content matches the claim
\* or its negation, at least 80% contain the lowercased claim.
C3_SupportedWhenSupportPrevails ==
    (/\ ConsensusCalled
     /\ HighConfidence # {}
     /\ Supporting \cup Negating # {}
     /\ 10 * Cardinality(Supporting) >= 8 * Cardinality(Supporting \cup Negating))
        => result = Str("supported")

---------------------------------------------------------------------------
(* C4 *)

\* C4: with a non-empty claim and a non-empty source list in which no source
\* scores >= 0.7, evaluate_consensus returns 'no_consensus' whatever the
\* contents are.
C4_NoConsensusBelowGate ==
    (ConsensusCalled /\ HighConfidence = {}) => result = Str("no_consensus")

---------------------------------------------------------------------------
(* C5 *)

\* C5: when every high-confidence source that matches the claim or its
\* negation contains "not " + claim, those sources are tallied as oppose and
\* evaluate_consensus returns 'disputed'.
C5_DisputedWhenAllNegate ==
    (/\ ConsensusCalled
     /\ Supporting \cup Negating # {}
     /\ Supporting \cup Negating \subseteq Negating)
        => result = Str("disputed")

---------------------------------------------------------------------------
(* C6 *)

---------------------------------------------------------------------------
(* C7 *)

\* the score the claim prescribes
C7_Score(q) ==
    LET kws == Get(q, "keywords", <<>>)
        d   == Get(q, "domain", "general")
        u   == Get(q, "urgency", "normal")
    IN    Len(SelectSeq(kws, LAMBDA k :
                lower(k) \in { <<"q","u","a","n","t","u","m">>, <<"t","a","r","i","f","f">>, <<"a","l","g","o","r","i","t","h","m">>, <<"p","h","i","l","o","s","o","p","h","y">> }))
        + (CASE d \in {"science", "economics"} -> 2 [] d = "history" -> 1 [] OTHER -> 0)
        + (CASE u = "high" -> -1 [] u = "low" -> 1 [] OTHER -> 0)

\* C7: for every non-empty query record decision_rule_engine returns light
\* when the score is <= 1, moderate when it is 2 or 3, deep when it is >= 4.
C7_ModeByScore ==
    (fn = "decision_rule_engine" /\ Parsed /\ TheQuery # <<>>) =>
        /\ C7_Score(TheQuery) <= 1 => result = Str("light")
        /\ C7_Score(TheQuery) \in 2..3 => result = Str("moderate")
        /\ C7_Score(TheQuery) >= 4 => result = Str("deep")

\* a query with mixed-case technical keywords and an unrecognized urgency was
\* classified deep
C7_Witness ==
    /\ fn = "decision_rule_engine"
    /\ Parsed
    /\ Get(TheQuery, "keywords", <<>>) = << <<"Q","u","a","n","t","u","m">>, <<"A","L","G","O","R","I","T","H","M">> >>
    /\ Get(TheQuery, "urgency", "normal") = "asap"
    /\ C7_Score(TheQuery) = 4
    /\ result = Str("deep")

---------------------------------------------------------------------------
(* C8 *)

\* the first data point's domain is economics and the problem contains "price"
C8_Case ==
    /\ fn = "hybrid_reasoning_engine"
    /\ Parsed
    /\ TheData # <<>>
    /\ Get(TheData[1], "domain", "general") = "economics"
    /\ IsSubstring(<<"p","r","i","c","e">>, lower(TheProblem))

\* the observations that contain "increase", case-insensitively
C8_Increasing ==
    {i \in 1..Len(TheData) :
        IsSubstring(<<"i","n","c","r","e","a","s","e">>, lower(Get(TheData[i], "observation", <<>>)))}

\* the phrase the claim prescribes: strictly more than half
C8_Trend ==
    IF 2 * Cardinality(C8_Increasing) > Len(TheData)
    THEN <<"l","i","k","e","l","y"," ","i","n","c","r","e","a","s","e","s">>
    ELSE <<"m","a","y"," ","n","o","t"," ","i","n","c","r","e","a","s","e">>

\* C8 as stated: the conclusion embeds the problem text as given, and the
\* trend phrase.
C8_EmbedsProblemAsGiven ==
    C8_Case =>
        /\ result.kind = "text"
        /\ IsSubstring(TheProblem, result.text)
        /\ IsSubstring(C8_Trend, result.text)

\* C8 as amended: the conclusion embeds the lowercased problem text, and the
\* trend phrase: "likely increases" exactly when strictly more than half of
\* the observations contain "increase", "may not increase" otherwise.
C8_EmbedsLoweredProblem ==
    C8_Case =>
        /\ result.kind = "text"
        /\ IsSubstring(lower(TheProblem), result.text)
        /\ IsSubstring(C8_Trend, result.text)

\* a problem with upper-case letters and 2 of 3 observations increasing
C8_Witness ==
    /\ C8_Case
    /\ TheProblem # lower(TheProblem)
    /\ Len(TheData) = 3
    /\ Cardinality(C8_Increasing) = 2
    /\ result.kind = "text"
    /\ IsSubstring(<<"l","i","k","e","l","y"," ","i","n","c","r","e","a","s","e","s">>, result.text)

---------------------------------------------------------------------------
(* C9 *)

\* the score the claim prescribes in calendar year current_year, in hundredths
C9_Score(d, current_year) ==
    LET t == Get(d, "type", "opinion")
        a == Get(d, "authority", "blog")
        years_old == current_year - Get(d, "year", current_year)
        T == CASE t = "primary" -> 9 [] t = "secondary" -> 6 [] OTHER -> 3
        A == CASE a = "academic" -> 9 [] a = "government" -> 8
               [] a = "news" -> 5 [] OTHER -> 2
    IN  Min(Max(4 * T + 3 * Max(0, 10 - 2 * years_old) + 3 * A, 0), 100)

\* C9: for every non-empty source descriptor and every current year,
\* confidence_score_source returns the clamped weighted sum with
\* years_old = current year - published year.
C9_ScoreByCurrentYear ==
    (fn = "confidence_score_source" /\ Parsed /\ TheSource # <<>>) =>
        result = Float(C9_Score(TheSource, now))

---------------------------------------------------------------------------
(* C10 *)

\* the section of the entry point called last is absent or empty
C10_SectionMissing ==
    CASE fn = "confidence_score_source"  -> TheSource = <<>>
      [] fn = "decision_rule_engine"     -> TheQuery = <<>>
      [] fn = "evaluate_consensus"       -> TheClaim = <<>> \/ TheSources = <<>>
      [] fn = "hybrid_reasoning_engine"  -> TheProblem = <<>>
      [] OTHER -> FALSE

\* that entry point's own missing-section report
C10_Report ==
    CASE fn = "confidence_score_source"  -> "No source data provided"
      [] fn = "decision_rule_engine"     -> "No query data provided"
      [] fn = "evaluate_consensus"       -> "No claim or sources provided"
      [] OTHER                           -> "No problem provided"

\* C10: a resource-condition message is returned only when the loader
\* reported resource-not-found or malformed-structure, and every successfully
\* parsed record whose section is absent or empty gets the entry point's own
\* missing-section report.
C10_ConditionsNeverConflated ==
    fn # "none" =>
        /\ result \in {Str("File not found"), Str("Invalid JSON format")}
              => file.state \in {"missing", "malformed"}
        /\ (file.state = "ok" /\ C10_SectionMissing) => result = Str(C10_Report)

===========================================================================
